---- MODULE Spec2Model ----
(***************************************************************************)
(* Model of the agent runtime core of rmm-psa-agent-v2:                    *)
(*   - IPCManager (ipc/manager.js): executeHelper, _executeHelperOnce,     *)
(*     killCommand, shutdown and the helper process's events;              *)
(*   - WebSocketClient (lib/ws-client.js): send, handleOpen, handleClose,  *)
(*     flushMessageQueue, reconnect and heartbeat.                         *)
(*   - UpdateHelperV2 (helpers/update-helper.js): the update and rollback  *)
(*     runs, compareVersions, and what a run writes to standard output;    *)
(*   - IPCManager._parseHelperResponse and the runtime's command handlers  *)
(*     with the responses they send.                                       *)
(* Every action is one turn of the Node.js event loop: a public call, a    *)
(* timer callback or an event handler, with the promise continuations it   *)
(* runs before the next event.                                             *)
(***************************************************************************)
EXTENDS Integers, Sequences, FiniteSets, TLC

VARIABLES
    isInitialized,     \* IPCManager.isInitialized
    hasShutdown,       \* IPCManager.shutdown() has run
    optRetry,          \* IPCManager.options.retryAttempts
    activeCommands,    \* IPCManager.activeCommands: commandId -> attempt whose process it holds
    call,              \* one executeHelper invocation per commandId
    att,               \* one _executeHelperOnce closure per (commandId, attempt)
    ws,                \* WebSocketClient.ws: "null" or "sock", the socket last created
    sock,              \* that socket: "none", "connecting", "open", "closing", "closed"
    isConnected,       \* WebSocketClient.isConnected
    shouldReconnect,   \* WebSocketClient.shouldReconnect
    reconnectAttempts, \* WebSocketClient.reconnectAttempts
    reconnectTimer,    \* scheduleReconnect's setTimeout is pending
    heartbeatInterval, \* WebSocketClient.heartbeatInterval: "null" or "set"
    hbTimers,          \* the number of heartbeat setInterval timers alive
    messageQueue,      \* WebSocketClient.messageQueue
    sendCount,         \* the number of send() calls so far; the k-th message has id k
    conns,             \* the number of sockets created so far
    accepted,          \* the payloads ws.send() took, in order
    thrown,            \* ids whose send() call rejected to its caller
    lost,              \* ids taken off the queue by a flush whose ws.send() threw
    wire,              \* the ws.send() calls made on the socket last created, in order
    timerDelay,        \* the delay of the pending reconnect timer, in 1/DelayScale ms
    last,              \* the socket event handled last: what it emitted and sent
    hbManager,         \* AgentV2.heartbeat: "idle" (not created), "running", "stopped"
    proc,              \* the agent process: "running", "stopping", "exited"
    exe,               \* the content of the agent's executable file
    service,           \* the agent service: "running" or "stopped"
    backups,           \* the agent-backup-<ts> files: timestamp and content
    clock,             \* Date.now()
    updFile,           \* the file installUpdate looks for is in the temp directory
    helper,            \* the update-helper process: its action and position
    upd,               \* handleAgentUpdate's request, its executeHelper loop and
                       \* what its runs did: an install failed after its backup
                       \* (installFailed), the executable before them (pre)
    rollback,          \* the rollback run asked for last: "none", "running" or its result
    latest,            \* the release's tag_name, read by fetchUpdateInfo
    current,           \* the version getCurrentVersion returns
    checkResult,       \* what checkForUpdates returned: "none" before it has
    output,            \* a helper process's standard output and what the close
                       \* handler made of it
    request,           \* the command message the runtime is handling
    responses          \* the runtime's ws.send() calls for it, in order

ipcVars == <<isInitialized, hasShutdown, optRetry, activeCommands, call, att>>

wsVars == <<ws, sock, isConnected, shouldReconnect, reconnectAttempts,
            reconnectTimer, heartbeatInterval, hbTimers, messageQueue,
            sendCount, conns, accepted, thrown, lost, wire, timerDelay, last,
            hbManager, proc>>

\* the client's variables but the process
wsButProc == <<ws, sock, isConnected, shouldReconnect, reconnectAttempts,
               reconnectTimer, heartbeatInterval, hbTimers, messageQueue,
               sendCount, conns, accepted, thrown, lost, wire, timerDelay,
               last, hbManager>>

updVars == <<exe, service, backups, clock, updFile, helper, upd, rollback>>

cmpVars == <<latest, current, checkResult>>

outVars == <<output>>

rspVars == <<request, responses>>

\* what the IPC manager and the protocol client leave alone
extVars == <<updVars, cmpVars, outVars, rspVars>>

\* what the steps of an update leave alone
notUpdVars == <<ipcVars, wsVars, cmpVars, outVars, rspVars>>

\* what the version check leaves alone
notCmpVars == <<ipcVars, wsVars, updVars, outVars, rspVars>>

\* what a helper's output and its parsing leave alone
notOutVars == <<ipcVars, wsVars, updVars, cmpVars, rspVars>>

\* what the command handlers' responses leave alone
notRspVars == <<ipcVars, wsVars, updVars, cmpVars, outVars>>

vars == <<isInitialized, hasShutdown, optRetry, activeCommands, call, att,
          ws, sock, isConnected, shouldReconnect, reconnectAttempts,
          reconnectTimer, heartbeatInterval, hbTimers, messageQueue,
          sendCount, conns, accepted, thrown, lost, wire, timerDelay, last,
          hbManager, proc, exe, service, backups, clock, updFile, helper,
          upd, rollback, latest, current, checkResult, output, request,
          responses>>

-----------------------------------------------------------------------------
(* Bounds and program constants *)

\* largest retry count a caller or the constructor asks for
MaxRetries == 1

\* the largest part of a version string
MaxPart == 2

\* the largest number of parts of a version string
MaxParts == 3

\* the largest number of lines of a helper's output, its printed result
\* apart
MaxLines == 3

\* Number(part) of a part that is not a number
NaN == -1

\* no version read yet
NoVersion == [v |-> FALSE, parts |-> <<>>]

\* no helper process has written anything
NoOutput == [who |-> "none", pc |-> "none", lines |-> <<>>, code |-> 0,
             result |-> "none", parsed |-> "none"]

\* no command message is being handled
NoRequest == [type |-> "none"]

\* helper.backupTs before installUpdate or rollbackUpdate has named a backup
NoBackup == 0

\* Date.now() when the agent receives its first command
FirstNow == 3

\* _delay(1000 * (attempt + 1))
BaseDelay == 1000

\* the number of send() calls observed
MaxSends == 3

\* the number of sockets the client creates
MaxConns == 2

\* the number of sockets the client creates when only connections are observed
MaxSockets == 12

\* this.maxReconnectAttempts
MaxReconnectAttempts == 10

\* commandIds (uuidv4 values) of the invocations observed
Calls == {"id1", "id2"}

Attempts == 0 .. MaxRetries

\* options.retryAttempts not given by the caller
Undef == -1

\* no entry in activeCommands
NoEntry == -1

Helpers == {"update-helper", "missing-helper"}

\* fs.existsSync(getHelperPath(helperName))
HelperExists(h) == h # "missing-helper"

-----------------------------------------------------------------------------
(* Values *)

NoAttempt ==
    [proc |-> "none", killed |-> FALSE, sigterm |-> FALSE, sigkill |-> FALSE,
     isResolved |-> FALSE, timer |-> "none", grace |-> "none",
     outcome |-> "none", settles |-> 0]

IdleCall ==
    [pc |-> "idle", helper |-> "none", req |-> Undef, retryAttempts |-> 0,
     attempt |-> 0, delayMs |-> 0, resolves |-> 0, kills |-> 0,
     killRet |-> "none"]

\* an invocation id the run does not use
UnusedCall == [IdleCall EXCEPT !.pc = "unused"]

-----------------------------------------------------------------------------
(* The helper process and the promise of one attempt *)

\* child.kill(sig). Node delivers the signal only while the process handle
\* exists, and then sets child.killed: killed records that a signal was sent,
\* not that the process has terminated.
Kill(a, sig) ==
    IF a.proc = "running"
    THEN [a EXCEPT !.killed = TRUE,
                   !.sigterm = @ \/ sig = "SIGTERM",
                   !.sigkill = @ \/ sig = "SIGKILL"]
    ELSE a

\* resolve(...) / reject(...) of the attempt's promise: only the first call
\* decides the outcome, every call is counted
Settle(a, out) ==
    [a EXCEPT !.settles = @ + 1,
              !.outcome = IF @ = "pending" THEN out ELSE @]

\* OnClose without its `if (isResolved) return`
OnCloseUnguarded(a, code) ==
    [a |-> Settle([a EXCEPT !.isResolved = TRUE],
                  IF code = 0 THEN "ok" ELSE "exit"),
     del |-> TRUE]

\* child.on('close', (code) => ...): the completion handler
OnClose(a, code) ==
    IF a.isResolved
    THEN [a |-> a, del |-> FALSE]
    ELSE [a |-> Settle([a EXCEPT !.isResolved = TRUE],
                       IF code = 0 THEN "ok" ELSE "exit"),
          del |-> TRUE]

\* child.on('close', () => clearTimeout(timeoutHandle))
OnCloseClear(a) ==
    [a EXCEPT !.timer = IF @ = "armed" THEN "done" ELSE @]

\* child.on('error', (error) => ...)
OnError(a) ==
    IF a.isResolved
    THEN [a |-> a, del |-> FALSE]
    ELSE [a |-> Settle([a EXCEPT !.isResolved = TRUE], "procerror"),
          del |-> TRUE]

\* the kill escalation of the timeout handler
TimeoutKill(a) ==
    IF ~a.killed
    THEN [Kill(a, "SIGTERM") EXCEPT !.grace = "pending"]
    ELSE a

\* OnTimeout that also returns early when a signal was already sent
OnTimeoutSkipsKilled(a) ==
    LET t == [a EXCEPT !.timer = "done"]
    IN  IF t.isResolved \/ t.killed
        THEN [a |-> t, del |-> FALSE]
        ELSE [a |-> Settle(TimeoutKill([t EXCEPT !.isResolved = TRUE]), "timeout"),
              del |-> TRUE]

\* setTimeout(() => { ... }, timeout): the timeout handler
OnTimeout(a) ==
    LET t == [a EXCEPT !.timer = "done"]
    IN  IF t.isResolved
        THEN [a |-> t, del |-> FALSE]
        ELSE [a |-> Settle(TimeoutKill([t EXCEPT !.isResolved = TRUE]), "timeout"),
              del |-> TRUE]

\* setTimeout(() => { if (!child.killed) child.kill('SIGKILL') }, 5000)
OnGrace(a) ==
    LET g == [a EXCEPT !.grace = "fired"]
    IN  IF ~g.killed THEN Kill(g, "SIGKILL") ELSE g

\* the kill escalation of killCommand
KillEscalate(a) ==
    IF ~a.killed
    THEN [Kill(a, "SIGTERM") EXCEPT !.grace = "pending"]
    ELSE a

\* the closure state right after spawn() and the handler registrations
Spawned ==
    [NoAttempt EXCEPT !.proc = "running", !.timer = "armed", !.outcome = "pending"]

-----------------------------------------------------------------------------
(* executeHelper's retry loop *)

\* options.retryAttempts || this.options.retryAttempts
RetryAttemptsOf(req, dflt) ==
    IF req = Undef \/ req = 0 THEN dflt ELSE req

\* return result
AfterResolve(cl) ==
    [cl EXCEPT !.pc = "returned", !.resolves = @ + 1]

\* catch (error) { lastError = error; if (attempt < retryAttempts) await _delay(...) }
\* and, after the loop, throw lastError
AfterReject(cl, err) ==
    IF cl.attempt < cl.retryAttempts
    THEN [cl EXCEPT !.pc = "delay", !.delayMs = BaseDelay * (cl.attempt + 1)]
    ELSE [cl EXCEPT !.pc = "thrown", !.resolves = @ + 1]

\* the continuation of `await this._executeHelperOnce(...)` once the promise
\* of the attempt goes from pending to settled
Continue(cl, old, new) ==
    IF old.outcome = "pending" /\ new.outcome # "pending"
    THEN IF new.outcome = "ok" THEN AfterResolve(cl) ELSE AfterReject(cl, new.outcome)
    ELSE cl

\* activeCommands.delete(commandId) when the handler ran its settling branch
Deleted(ac, c, del) ==
    IF del THEN [ac EXCEPT ![c] = NoEntry] ELSE ac

\* _executeHelperOnce for the attempt cl.attempt of invocation c
BeginAttempt(c, cl) ==
    LET k == cl.attempt
    IN  IF ~HelperExists(cl.helper)
        THEN /\ att' = [att EXCEPT ![c][k] =
                            Settle([NoAttempt EXCEPT !.outcome = "pending"], "notfound")]
             /\ call' = [call EXCEPT ![c] = AfterReject(cl, "notfound")]
             /\ UNCHANGED activeCommands
        ELSE \E spawnOk \in BOOLEAN :
                LET cs == [cl EXCEPT !.pc = "running"]
                IN  IF spawnOk
                    THEN /\ att' = [att EXCEPT ![c][k] = Spawned]
                         /\ activeCommands' = [activeCommands EXCEPT ![c] = k]
                         /\ call' = [call EXCEPT ![c] = cs]
                    ELSE \* spawn fails: 'error' is emitted on the next tick
                         LET a0 == [Spawned EXCEPT !.proc = "errored"]
                             h == OnError(a0)
                         IN  /\ att' = [att EXCEPT ![c][k] = h.a]
                             /\ activeCommands' =
                                    Deleted([activeCommands EXCEPT ![c] = k], c, h.del)
                             /\ call' = [call EXCEPT ![c] = Continue(cs, a0, h.a)]

-----------------------------------------------------------------------------
(* Actions of the IPC manager *)

Initialize ==
    /\ ~isInitialized
    /\ ~hasShutdown
    /\ isInitialized' = TRUE
    /\ UNCHANGED <<hasShutdown, optRetry, activeCommands, call, att, wsVars, extVars>>

ExecuteHelper(c, h, req) ==
    /\ proc # "exited"
    /\ call[c].pc = "idle"
    /\ LET cl == [call[c] EXCEPT !.helper = h, !.req = req,
                                 !.retryAttempts = RetryAttemptsOf(req, optRetry)]
       IN  IF ~isInitialized
           THEN /\ call' = [call EXCEPT ![c] =
                               [cl EXCEPT !.pc = "thrown", !.resolves = @ + 1]]
                /\ UNCHANGED <<activeCommands, att>>
           ELSE BeginAttempt(c, cl)
    /\ UNCHANGED <<isInitialized, hasShutdown, optRetry, wsVars, extVars>>

\* AgentV2.handleAgentUpdate up to its call of executeHelper
HandleAgentUpdate(c) ==
    ExecuteHelper(c, "update-helper", Undef)

\* AgentV2.handleHelperCommand up to its call of executeHelper
HandleHelperCommand(c, h) ==
    ExecuteHelper(c, h, Undef)

\* the retry delay of invocation c elapses: the loop starts the next attempt
DelayFire(c) ==
    /\ proc # "exited"
    /\ call[c].pc = "delay"
    /\ BeginAttempt(c, [call[c] EXCEPT !.attempt = @ + 1])
    /\ UNCHANGED <<isInitialized, hasShutdown, optRetry, wsVars, extVars>>

ExitCodes(a) ==
    IF a.proc = "errored" THEN {1}
    ELSE {0, 1} \cup (IF a.sigterm \/ a.sigkill THEN {-1} ELSE {})

\* the process of attempt (c, k) ends: 'close' runs both close handlers, as
\* long as the agent process is there to run them
ProcClose(c, k) ==
    /\ proc # "exited"
    /\ att[c][k].proc \in {"running", "errored"}
    /\ \E code \in ExitCodes(att[c][k]) :
          LET a0 == [att[c][k] EXCEPT !.proc = "closed"]
              h == OnClose(a0, code)
          IN  /\ att' = [att EXCEPT ![c][k] = OnCloseClear(h.a)]
              /\ activeCommands' = Deleted(activeCommands, c, h.del)
              /\ call' = [call EXCEPT ![c] = Continue(@, a0, h.a)]
    /\ UNCHANGED <<isInitialized, hasShutdown, optRetry, wsVars, extVars>>

TimeoutFire(c, k) ==
    /\ proc # "exited"
    /\ att[c][k].timer = "armed"
    /\ LET h == OnTimeout(att[c][k])
       IN  /\ att' = [att EXCEPT ![c][k] = h.a]
           /\ activeCommands' = Deleted(activeCommands, c, h.del)
           /\ call' = [call EXCEPT ![c] = Continue(@, att[c][k], h.a)]
    /\ UNCHANGED <<isInitialized, hasShutdown, optRetry, wsVars, extVars>>

GraceFire(c, k) ==
    /\ proc # "exited"
    /\ att[c][k].grace = "pending"
    /\ att' = [att EXCEPT ![c][k] = OnGrace(@)]
    /\ UNCHANGED <<isInitialized, hasShutdown, optRetry, activeCommands, call, wsVars, extVars>>

\* KillCommandOn without its `this.activeCommands.delete(commandId)`
KillCommandKeepsEntry(s, c) ==
    IF s.ac[c] = NoEntry
    THEN [s EXCEPT !.cs[c].killRet = "false"]
    ELSE [ac |-> s.ac,
          at |-> [s.at EXCEPT ![c][s.ac[c]] = KillEscalate(@)],
          cs |-> [s.cs EXCEPT ![c].killRet = "true", ![c].kills = @ + 1]]

\* killCommand(commandId) on the state (ac, at, cs)
KillCommandOn(s, c) ==
    IF s.ac[c] = NoEntry
    THEN [s EXCEPT !.cs[c].killRet = "false"]
    ELSE [ac |-> [s.ac EXCEPT ![c] = NoEntry],
          at |-> [s.at EXCEPT ![c][s.ac[c]] = KillEscalate(@)],
          cs |-> [s.cs EXCEPT ![c].killRet = "true", ![c].kills = @ + 1]]

KillCommand(c) ==
    /\ LET s == KillCommandOn([ac |-> activeCommands, at |-> att, cs |-> call], c)
       IN  /\ activeCommands' = s.ac
           /\ att' = s.at
           /\ call' = s.cs
    /\ UNCHANGED <<isInitialized, hasShutdown, optRetry, wsVars, extVars>>

RECURSIVE KillAll(_, _)
\* for (const [commandId] of this.activeCommands) await this.killCommand(commandId)
KillAll(s, ids) ==
    IF ids = {} THEN s
    ELSE LET c == CHOOSE x \in ids : TRUE
         IN  KillAll(KillCommandOn(s, c), ids \ {c})

Shutdown ==
    /\ LET s == KillAll([ac |-> activeCommands, at |-> att, cs |-> call],
                        {c \in Calls : activeCommands[c] # NoEntry})
       IN  /\ activeCommands' = s.ac
           /\ att' = s.at
           /\ call' = s.cs
    /\ isInitialized' = FALSE
    /\ hasShutdown' = TRUE
    /\ UNCHANGED <<optRetry, wsVars, extVars>>

-----------------------------------------------------------------------------
(* The protocol client: WebSocketClient, as AgentV2 runs it *)

MsgTypes == {"app", "pong", "heartbeat", "update_response"}

\* a payload without a pingId field
NoPingId == -1

\* the correlation tokens the backend puts in its pings
PingIds == {1, 2}

Msg(t, n) == [type |-> t, id |-> n, pingId |-> NoPingId]

\* the agent_hello payload, written by handleOpen without going through send()
Hello == Msg("agent_hello", 0)

\* the argument of one send() call
Req(t, p) == [type |-> t, pingId |-> p]

Ids(q) == {q[i].id : i \in 1 .. Len(q)}

\* the payloads of the calls in w that ws.send() took
Taken(w) == [i \in 1 .. Len(SelectSeq(w, LAMBDA e : e.ok)) |->
                SelectSeq(w, LAMBDA e : e.ok)[i].msg]

\* a flush that writes the head of the queue and leaves the rest for a later
\* turn
FlushMessageQueueHeadOnly(q, F) ==
    IF q = <<>> THEN [writes |-> <<>>, lost |-> {}, queue |-> <<>>]
    ELSE [writes |-> <<[msg |-> q[1], ok |-> 1 \notin F]>>,
          lost |-> IF 1 \in F THEN {q[1].id} ELSE {},
          queue |-> Tail(q)]

\* flushMessageQueue: this.send(message) for each queued message in order,
\* then this.messageQueue = []. send() is async and not awaited, so a write
\* that throws rejects a promise nobody handles and the loop goes on.
\* F holds the indices whose write throws.
FlushMessageQueue(q, F) ==
    [writes |-> [i \in 1 .. Len(q) |-> [msg |-> q[i], ok |-> i \notin F]],
     lost |-> {q[i].id : i \in F},
     queue |-> <<>>]

\* OpenWrites with the flush ahead of the identification
OpenWritesFlushFirst(q, helloOk, F) ==
    FlushMessageQueue(q, F).writes \o <<[msg |-> Hello, ok |-> helloOk]>>

\* the ws.send() calls of handleOpen in order: agent_hello, then the flush
OpenWrites(q, helloOk, F) ==
    <<[msg |-> Hello, ok |-> helloOk]>> \o FlushMessageQueue(q, F).writes

\* this.reconnectDelay
ReconnectDelay == 5000

\* delays are kept in units of 1/DelayScale ms: 1.5^e * DelayScale is an
\* integer for every exponent the reconnect cap allows
DelayScale == 512

RECURSIVE Pow15(_)
\* Math.pow(1.5, e), times DelayScale
Pow15(e) == IF e = 0 THEN DelayScale ELSE (Pow15(e - 1) * 3) \div 2

\* ScheduleReconnect without its `reconnectAttempts >= maxReconnectAttempts` return
ScheduleReconnectUncapped(n) ==
    [attempts |-> n + 1, timer |-> TRUE, delay |-> ReconnectDelay * Pow15(n)]

\* ScheduleReconnect with the exponent taken after the increment as it is
ScheduleReconnectLateExponent(n) ==
    IF n >= MaxReconnectAttempts
    THEN [attempts |-> n, timer |-> FALSE, delay |-> 0]
    ELSE [attempts |-> n + 1, timer |-> TRUE, delay |-> ReconnectDelay * Pow15(n + 1)]

\* scheduleReconnect, called with reconnectAttempts = n
ScheduleReconnect(n) ==
    IF n >= MaxReconnectAttempts
    THEN [attempts |-> n, timer |-> FALSE, delay |-> 0]
    ELSE [attempts |-> n + 1, timer |-> TRUE, delay |-> ReconnectDelay * Pow15(n)]

\* the agent process has not exited
Alive == proc # "exited"

\* the variables send() works on, and the messages passed to it this turn
SendState ==
    [queue |-> messageQueue, accepted |-> accepted, thrown |-> thrown,
     wire |-> wire, count |-> sendCount, sent |-> <<>>]

\* send(message) for the request r; writeOk says whether ws.send() returns
\* or throws
SendOn(s, r, writeOk) ==
    LET m == [type |-> r.type, id |-> s.count + 1, pingId |-> r.pingId]
        c == [s EXCEPT !.count = @ + 1, !.sent = Append(@, m)]
    IN  IF ~isConnected
        THEN [c EXCEPT !.queue = Append(@, m)]
        ELSE IF ws = "sock"
             THEN [c EXCEPT !.wire = Append(@, [msg |-> m, ok |-> writeOk]),
                            !.accepted = IF writeOk THEN Append(@, m) ELSE @,
                            !.thrown = IF writeOk THEN @ ELSE @ \cup {m.id}]
             ELSE [c EXCEPT !.thrown = @ \cup {m.id}]

RECURSIVE SendAll(_, _, _, _)
\* the send() calls of one turn, in order
SendAll(s, rs, oks, i) ==
    IF i > Len(rs) THEN s
    ELSE SendAll(SendOn(s, rs[i], oks[i]), rs, oks, i + 1)

Sends(rs, oks) ==
    LET s == SendAll(SendState, rs, oks, 1)
    IN  /\ sendCount + Len(rs) <= MaxSends
        /\ messageQueue' = s.queue
        /\ accepted' = s.accepted
        /\ thrown' = s.thrown
        /\ wire' = s.wire
        /\ sendCount' = s.count

\* send(message), called by the runtime (type app) or by a heartbeat timer
SendMsg(t, writeOk) ==
    /\ Sends(<<Req(t, NoPingId)>>, <<writeOk>>)
    /\ UNCHANGED lost

\* the runtime sends a response or report
Send ==
    /\ Alive
    /\ \E writeOk \in BOOLEAN : SendMsg("app", writeOk)
    /\ UNCHANGED <<ws, sock, isConnected, shouldReconnect, reconnectAttempts,
                   reconnectTimer, heartbeatInterval, hbTimers, conns,
                   timerDelay, last, hbManager, proc, ipcVars, extVars>>

\* new WebSocket(wsUrl, ...) in connect(), while fewer than `limit` sockets
\* were created
NewSocket(limit) ==
    /\ conns < limit
    /\ conns' = conns + 1
    /\ ws' = "sock"
    /\ sock' = "connecting"
    /\ wire' = <<>>

\* AgentV2.start from `await this.ws.connect()` on: connect(), then
\* new HeartbeatManager(...).start(), whose first sendHeartbeat() calls
\* send() before any socket event is handled
Start ==
    /\ Alive
    /\ conns = 0
    /\ hbManager = "idle"
    /\ NewSocket(MaxConns)
    /\ hbManager' = "running"
    /\ LET s == SendOn(SendState, Req("heartbeat", NoPingId), TRUE)
       IN  /\ sendCount < MaxSends
           /\ messageQueue' = s.queue
           /\ accepted' = s.accepted
           /\ thrown' = s.thrown
           /\ sendCount' = s.count
    /\ UNCHANGED <<isConnected, shouldReconnect, reconnectAttempts, reconnectTimer,
                   heartbeatInterval, hbTimers, lost, timerDelay, last, proc,
                   ipcVars, extVars>>

\* the event a socket handler leaves behind
Handled(h, kind, p, emitted, sent) ==
    [handler |-> h, kind |-> kind, pingId |-> p, emitted |-> emitted, sent |-> sent]

NoEvent == Handled("none", "none", NoPingId, <<>>, <<>>)

\* the socket's 'open' event: handleOpen
HandleOpen ==
    /\ Alive
    /\ sock = "connecting"
    /\ sock' = "open"
    /\ isConnected' = TRUE
    /\ reconnectAttempts' = 0
    /\ \E helloOk \in BOOLEAN, F \in SUBSET (1 .. Len(messageQueue)) :
          LET w == OpenWrites(messageQueue, helloOk, F)
              f == FlushMessageQueue(messageQueue, F)
          IN  /\ wire' = wire \o w
              /\ accepted' = accepted \o Taken(w)
              /\ lost' = lost \cup f.lost
              /\ messageQueue' = f.queue
    \* startHeartbeat overwrites this.heartbeatInterval
    /\ heartbeatInterval' = "set"
    /\ hbTimers' = hbTimers + 1
    /\ last' = Handled("open", "none", NoPingId, <<"connected">>, <<>>)
    /\ UNCHANGED <<ws, shouldReconnect, reconnectTimer, sendCount, conns,
                   thrown, timerDelay, hbManager, proc, ipcVars, extVars>>

\* HandleClose without its clearInterval(this.heartbeatInterval)
HandleCloseKeepsInterval ==
    /\ Alive
    /\ sock \in {"connecting", "open", "closing"}
    /\ sock' = "closed"
    /\ isConnected' = FALSE
    /\ heartbeatInterval' = "null"
    /\ hbTimers' = hbTimers
    /\ last' = Handled("close", "none", NoPingId, <<"disconnected">>, <<>>)
    /\ LET r == ScheduleReconnect(reconnectAttempts)
       IN  IF shouldReconnect
           THEN /\ reconnectAttempts' = r.attempts
                /\ reconnectTimer' = r.timer
                /\ timerDelay' = r.delay
           ELSE UNCHANGED <<reconnectAttempts, reconnectTimer, timerDelay>>
    /\ UNCHANGED <<ws, shouldReconnect, messageQueue, sendCount, conns,
                   accepted, thrown, lost, wire, hbManager, proc, ipcVars, extVars>>

\* the socket's 'close' event: handleClose
HandleClose ==
    /\ Alive
    /\ sock \in {"connecting", "open", "closing"}
    /\ sock' = "closed"
    /\ isConnected' = FALSE
    /\ heartbeatInterval' = "null"
    /\ hbTimers' = IF heartbeatInterval = "set" THEN hbTimers - 1 ELSE hbTimers
    /\ last' = Handled("close", "none", NoPingId, <<"disconnected">>, <<>>)
    /\ LET r == ScheduleReconnect(reconnectAttempts)
       IN  IF shouldReconnect
           THEN /\ reconnectAttempts' = r.attempts
                /\ reconnectTimer' = r.timer
                /\ timerDelay' = r.delay
           ELSE UNCHANGED <<reconnectAttempts, reconnectTimer, timerDelay>>
    /\ UNCHANGED <<ws, shouldReconnect, messageQueue, sendCount, conns,
                   accepted, thrown, lost, wire, hbManager, proc, ipcVars, extVars>>

\* ReconnectFire without the `if (this.shouldReconnect)` of the timer callback
ReconnectFireUnchecked(limit) ==
    /\ Alive
    /\ reconnectTimer
    /\ reconnectTimer' = FALSE
    /\ timerDelay' = 0
    /\ NewSocket(limit)
    /\ UNCHANGED <<isConnected, shouldReconnect, reconnectAttempts,
                   heartbeatInterval, hbTimers, messageQueue, sendCount,
                   accepted, thrown, lost, last, hbManager, proc, ipcVars, extVars>>

\* the reconnect timer fires: connect() if the client still wants to
ReconnectFire(limit) ==
    /\ Alive
    /\ reconnectTimer
    /\ reconnectTimer' = FALSE
    /\ timerDelay' = 0
    /\ IF shouldReconnect
       THEN NewSocket(limit)
       ELSE UNCHANGED <<ws, sock, conns, wire>>
    /\ UNCHANGED <<isConnected, shouldReconnect, reconnectAttempts,
                   heartbeatInterval, hbTimers, messageQueue, sendCount,
                   accepted, thrown, lost, last, hbManager, proc, ipcVars, extVars>>

\* the client's heartbeat interval fires: send({type: 'heartbeat'}) when connected
HeartbeatTick ==
    /\ Alive
    /\ hbTimers > 0
    /\ isConnected
    /\ \E writeOk \in BOOLEAN : SendMsg("heartbeat", writeOk)
    /\ UNCHANGED <<ws, sock, isConnected, shouldReconnect, reconnectAttempts,
                   reconnectTimer, heartbeatInterval, hbTimers, conns,
                   timerDelay, last, hbManager, proc, ipcVars, extVars>>

\* the HeartbeatManager's interval fires: sendHeartbeat() calls send()
HeartbeatManagerTick ==
    /\ Alive
    /\ hbManager = "running"
    /\ \E writeOk \in BOOLEAN : SendMsg("heartbeat", writeOk)
    /\ UNCHANGED <<ws, sock, isConnected, shouldReconnect, reconnectAttempts,
                   reconnectTimer, heartbeatInterval, hbTimers, conns,
                   timerDelay, last, hbManager, proc, ipcVars, extVars>>

InKinds == {"ping", "command", "malformed"}

\* OnMessage without the `return` of its ping branch
OnMessageSurfacesPing(kind, p) ==
    IF kind = "malformed" THEN [sends |-> <<>>, emitted |-> <<>>]
    ELSE IF kind = "ping"
         THEN [sends |-> <<Req("pong", p)>>, emitted |-> <<"message">>]
         ELSE [sends |-> <<>>, emitted |-> <<"message">>]

\* OnMessage without its try/catch: the parse error is thrown to the socket
OnMessageThrows(kind, p) ==
    IF kind = "malformed" THEN [sends |-> <<>>, emitted |-> <<"throw">>]
    ELSE IF kind = "ping"
         THEN [sends |-> <<Req("pong", p)>>, emitted |-> <<>>]
         ELSE [sends |-> <<>>, emitted |-> <<"message">>]

\* WebSocketClient.handleMessage: JSON.parse throws on a malformed payload
\* and the catch logs it; a ping is answered and not passed on; anything
\* else is emitted as 'message'
OnMessage(kind, p) ==
    IF kind = "malformed" THEN [sends |-> <<>>, emitted |-> <<>>]
    ELSE IF kind = "ping"
         THEN [sends |-> <<Req("pong", p)>>, emitted |-> <<>>]
         ELSE [sends |-> <<>>, emitted |-> <<"message">>]

\* AgentV2.handleMessage, the listener of 'message': the send() it calls in
\* the same turn (the command types answer later, through send())
AgentOnMessage(kind) ==
    IF kind = "ping" THEN <<Req("pong", NoPingId)>> ELSE <<>>

\* a payload of the given kind arrives on the socket
HandleMessage(kind, p) ==
    /\ Alive
    /\ sock \in {"open", "closing"}
    /\ LET h == OnMessage(kind, p)
           rs == h.sends \o (IF "message" \in {h.emitted[i] : i \in 1 .. Len(h.emitted)}
                             THEN AgentOnMessage(kind) ELSE <<>>)
       IN  \E oks \in [1 .. Len(rs) -> BOOLEAN] :
              /\ Sends(rs, oks)
              /\ last' = Handled("message", kind, p, h.emitted,
                                 SendAll(SendState, rs, oks, 1).sent)
    /\ UNCHANGED <<ws, sock, isConnected, shouldReconnect, reconnectAttempts,
                   reconnectTimer, heartbeatInterval, hbTimers, conns, lost,
                   timerDelay, hbManager, proc, ipcVars, extVars>>

\* disconnect()
Disconnect ==
    /\ shouldReconnect' = FALSE
    /\ heartbeatInterval' = "null"
    /\ hbTimers' = IF heartbeatInterval = "set" THEN hbTimers - 1 ELSE hbTimers
    /\ ws' = "null"
    /\ sock' = IF ws = "sock" /\ sock \in {"connecting", "open"} THEN "closing" ELSE sock
    /\ isConnected' = FALSE
    /\ UNCHANGED <<reconnectAttempts, reconnectTimer, messageQueue, sendCount,
                   conns, accepted, thrown, lost, wire, timerDelay, ipcVars, extVars>>

\* AgentV2.stop up to its first await that waits: heartbeat.stop(), then
\* ws.disconnect()
StopAgent ==
    /\ hbManager' = IF hbManager = "running" THEN "stopped" ELSE hbManager
    /\ Disconnect
    /\ proc' = "stopping"

\* SIGTERM or SIGINT once AgentV2.ws exists: every listener of the signal
\* runs in this turn.  shutdown(signal) calls stop(), the listener of
\* start.js calls stop() once more and the client's own listener calls
\* disconnect(); each stop() runs up to its `await this.ws.disconnect()`,
\* and what they do twice changes nothing the second time
Stop ==
    /\ proc = "running"
    /\ conns >= 1
    /\ StopAgent
    /\ UNCHANGED last

\* the socket's 'error' event: handleError emits 'error' on the client, which
\* has no listener for it, so emit throws; the 'uncaughtException' listener
\* of AgentV2 runs shutdown('UNCAUGHT_EXCEPTION'), that is stop() and exit
HandleError ==
    /\ Alive
    /\ sock \in {"connecting", "open", "closing"}
    /\ StopAgent
    /\ last' = Handled("error", "none", NoPingId, <<"error">>, <<>>)

\* the end of stop() without its `await this.ipc.shutdown()`
ExitWithoutShutdown ==
    /\ proc = "stopping"
    /\ proc' = "exited"
    /\ UNCHANGED <<ws, sock, isConnected, shouldReconnect, reconnectAttempts,
                   reconnectTimer, heartbeatInterval, hbTimers, messageQueue,
                   sendCount, conns, accepted, thrown, lost, wire, timerDelay,
                   last, hbManager, ipcVars, extVars>>

\* the rest of stop() and the end of shutdown(signal), which run in one turn
\* once the plugins are unloaded: ipc.shutdown() signals every helper in the
\* active-process table, config.save(), then process.exit(...)
Exit ==
    /\ proc = "stopping"
    /\ proc' = "exited"
    /\ LET s == KillAll([ac |-> activeCommands, at |-> att, cs |-> call],
                        {c \in Calls : activeCommands[c] # NoEntry})
       IN  /\ activeCommands' = s.ac
           /\ att' = s.at
           /\ call' = s.cs
    /\ isInitialized' = FALSE
    /\ hasShutdown' = TRUE
    /\ UNCHANGED <<ws, sock, isConnected, shouldReconnect, reconnectAttempts,
                   reconnectTimer, heartbeatInterval, hbTimers, messageQueue,
                   sendCount, conns, accepted, thrown, lost, wire, timerDelay,
                   last, hbManager, optRetry, extVars>>

\* the state after `new WebSocketClient(logger, config)`
InitWS ==
    /\ ws = "null"
    /\ sock = "none"
    /\ isConnected = FALSE
    /\ shouldReconnect = TRUE
    /\ reconnectAttempts = 0
    /\ reconnectTimer = FALSE
    /\ heartbeatInterval = "null"
    /\ hbTimers = 0
    /\ messageQueue = <<>>
    /\ sendCount = 0
    /\ conns = 0
    /\ accepted = <<>>
    /\ thrown = {}
    /\ lost = {}
    /\ wire = <<>>
    /\ timerDelay = 0
    /\ last = NoEvent
    /\ hbManager = "idle"
    /\ proc = "running"

NextWS ==
    \/ Start
    \/ Send
    \/ HandleOpen
    \/ HandleClose
    \/ HandleError
    \/ ReconnectFire(MaxConns)
    \/ HeartbeatTick
    \/ HeartbeatManagerTick
    \/ \E p \in PingIds : HandleMessage("ping", p)
    \/ \E kind \in InKinds \ {"ping"} : HandleMessage(kind, NoPingId)
    \/ Stop
    \/ Exit

-----------------------------------------------------------------------------
(* The update helper (helpers/update-helper.js) and the runtime's           *)
(* update_agent handler (AgentV2.handleAgentUpdate) that runs it.  A helper *)
(* run is a process of its own: each of its file, network and service       *)
(* operations is one step, and each can fail.                               *)

\* no helper process
NoHelper ==
    [run |-> "none", pc |-> "none", failed |-> {}, backupTs |-> NoBackup,
     result |-> "none"]

\* main(): `new UpdateHelper()` and the first step of process.argv[2]
HelperMain(action) ==
    [run |-> action, pc |-> IF action = "update" THEN "check" ELSE "list",
     failed |-> {}, backupTs |-> NoBackup, result |-> "none"]

\* a step whose failure is caught where it happens and only logged: the run
\* goes on to `next` either way
StepIgnoresFailure(h, step, ok, next) ==
    [h EXCEPT !.pc = next,
              !.failed = IF ok THEN @ ELSE @ \cup {step}]

\* a step's `throw` reaches the enclosing catch, which returns this.error(...)
\* and so ends the run; without a throw the run goes on to `next`
StepOf(h, step, ok, next) ==
    IF ok THEN [h EXCEPT !.pc = next]
    ELSE [h EXCEPT !.pc = "exit", !.failed = @ \cup {step}, !.result = "error"]

\* return this.success(...) at the end of installUpdate and rollbackUpdate
Succeed(h) == [h EXCEPT !.pc = "exit", !.result = "success"]

\* the outcomes of a copyFileSync onto the executable that throws
FailedCopy(content) == {content, "partial"}

\* backupFiles.sort(...)[0]: the backup whose name carries the greatest
\* timestamp
LatestBackup(bs) == CHOOSE b \in bs : \A c \in bs : c.ts <= b.ts

\* case 'update': checkForUpdates(); a failed check and a check that finds no
\* newer version both end the run with the check's result
Check(outcome) ==
    /\ helper.run = "update" /\ helper.pc = "check"
    /\ helper' = CASE outcome = "error" -> StepOf(helper, "check", FALSE, "download")
                   [] outcome = "none" -> Succeed(helper)
                   [] OTHER -> StepOf(helper, "check", TRUE, "download")
    /\ UNCHANGED <<exe, service, backups, clock, updFile, upd, rollback,
                   notUpdVars>>

\* downloadUpdate(version): the file is saved under the last segment of the
\* download URL, which is or is not the name installUpdate looks for
Download(ok, named) ==
    /\ helper.run = "update" /\ helper.pc = "download"
    /\ helper' = StepOf(helper, "download", ok, "exists")
    /\ updFile' = (updFile \/ (ok /\ named))
    /\ UNCHANGED <<exe, service, backups, clock, upd, rollback, notUpdVars>>

\* installUpdate: backupPath is named after Date.now(), then
\* `if (!fs.existsSync(updatePath)) throw`
InstallBegin ==
    /\ helper.run = "update" /\ helper.pc = "exists"
    /\ helper' = [StepOf(helper, "exists", updFile, "backup")
                    EXCEPT !.backupTs = clock]
    /\ clock' = clock + 1
    /\ UNCHANGED <<exe, service, backups, updFile, upd, rollback, notUpdVars>>

\* the backup step that goes on to stop the service whether or not the copy
\* was made
BackupUnchecked(ok) ==
    /\ helper.run = "update" /\ helper.pc = "backup"
    /\ helper' = StepIgnoresFailure(helper, "backup", ok, "stop")
    /\ backups' = IF ok
                  THEN backups \cup {[ts |-> helper.backupTs, content |-> exe]}
                  ELSE backups
    /\ UNCHANGED <<exe, service, clock, updFile, upd, rollback, notUpdVars>>

\* fs.copyFileSync(currentPath, backupPath)
Backup(ok) ==
    /\ helper.run = "update" /\ helper.pc = "backup"
    /\ helper' = StepOf(helper, "backup", ok, "stop")
    /\ backups' = IF ok
                  THEN backups \cup {[ts |-> helper.backupTs, content |-> exe]}
                  ELSE backups
    /\ UNCHANGED <<exe, service, clock, updFile, upd, rollback, notUpdVars>>

\* stopAgentService(): a failing command is caught and logged as a warning,
\* and the caller goes on
StopAgentService(ok) ==
    /\ helper.run \in {"update", "rollback"} /\ helper.pc = "stop"
    /\ helper' = StepIgnoresFailure(helper, "stop", ok, "copy")
    /\ service' = IF ok THEN "stopped" ELSE service
    /\ UNCHANGED <<exe, backups, clock, updFile, upd, rollback, notUpdVars>>

\* installUpdate: fs.copyFileSync(updatePath, currentPath)
Replace(ok) ==
    /\ helper.run = "update" /\ helper.pc = "copy"
    /\ helper' = StepOf(helper, "replace", ok, "chmod")
    /\ exe' \in IF ok THEN {"new"} ELSE FailedCopy(exe)
    /\ UNCHANGED <<service, backups, clock, updFile, upd, rollback,
                   notUpdVars>>

\* fs.chmodSync(currentPath, '755') on every platform but win32
Chmod(ok) ==
    /\ helper.run \in {"update", "rollback"} /\ helper.pc = "chmod"
    /\ helper' = StepOf(helper, "chmod", ok, "start")
    /\ UNCHANGED <<exe, service, backups, clock, updFile, upd, rollback,
                   notUpdVars>>

\* startAgentService(): a failing command throws 'Failed to start service';
\* rollbackUpdate returns success after it
StartAgentService(ok) ==
    /\ helper.run \in {"update", "rollback"} /\ helper.pc = "start"
    /\ helper' = IF ok /\ helper.run = "rollback"
                 THEN Succeed(helper)
                 ELSE StepOf(helper, "start", ok, "unlink")
    /\ service' = IF ok THEN "running" ELSE service
    /\ UNCHANGED <<exe, backups, clock, updFile, upd, rollback, notUpdVars>>

\* installUpdate: fs.unlinkSync(updatePath), then return this.success(...)
Cleanup(ok) ==
    /\ helper.run = "update" /\ helper.pc = "unlink"
    /\ helper' = IF ok THEN Succeed(helper)
                 ELSE StepOf(helper, "unlink", FALSE, "exit")
    /\ updFile' = (updFile /\ ~ok)
    /\ UNCHANGED <<exe, service, backups, clock, upd, rollback, notUpdVars>>

\* rollbackUpdate: list the backup directory and pick the latest backup;
\* 'No backup files found' when there is none
RollbackBegin ==
    /\ helper.run = "rollback" /\ helper.pc = "list"
    /\ helper' = IF backups = {}
                 THEN StepOf(helper, "list", FALSE, "stop")
                 ELSE [StepOf(helper, "list", TRUE, "stop")
                         EXCEPT !.backupTs = LatestBackup(backups).ts]
    /\ UNCHANGED <<exe, service, backups, clock, updFile, upd, rollback,
                   notUpdVars>>

\* rollbackUpdate: fs.copyFileSync(latestBackup, currentPath)
Restore(ok) ==
    /\ helper.run = "rollback" /\ helper.pc = "copy"
    /\ helper' = StepOf(helper, "restore", ok, "chmod")
    /\ exe' \in IF ok
                THEN {b.content : b \in {c \in backups : c.ts = helper.backupTs}}
                ELSE FailedCopy(exe)
    /\ UNCHANGED <<service, backups, clock, updFile, upd, rollback,
                   notUpdVars>>

\* the request of handleAgentUpdate before the update_agent message
IdleUpdate ==
    [pc |-> "idle", attempt |-> 0, response |-> "none", exitTimer |-> FALSE,
     installFailed |-> FALSE, pre |-> "none"]

\* handleAgentUpdate: executeHelper('update-helper', ['update', version])
\* spawns the helper
AgentUpdate ==
    /\ Alive
    /\ upd.pc = "idle" /\ helper.run = "none"
    /\ upd' = [upd EXCEPT !.pc = "running", !.pre = exe]
    /\ helper' = HelperMain("update")
    /\ UNCHANGED <<exe, service, backups, clock, updFile, rollback,
                   notUpdVars>>

\* the steps of installUpdate that follow the backup
AfterBackup == {"replace", "chmod", "start", "unlink"}

\* the end of a helper run after which the runtime restarts whatever the
\* run's result
UpdateHelperExitRestarts ==
    /\ helper.run = "update" /\ helper.pc = "exit"
    /\ helper' = NoHelper
    /\ upd' = [upd EXCEPT !.pc = "done", !.response = "success",
                          !.exitTimer = TRUE]
    /\ UNCHANGED <<exe, service, backups, clock, updFile, rollback, notUpdVars>>

\* the helper process of the update request ends with
\* process.exit(result.success ? 0 : 1).  Exit code 0 resolves executeHelper:
\* handleAgentUpdate passes update_response to send() and, the result being
\* a success, sets the timer of process.exit(0); a send() that throws takes
\* the handler to its catch instead.  Another exit code rejects the attempt:
\* executeHelper waits and runs the helper again until retryAttempts is used
\* up, then throws.  The handler's catch passes update_response with success
\* false to send().
UpdateHelperExit ==
    /\ helper.run = "update" /\ helper.pc = "exit"
    /\ helper' = NoHelper
    /\ LET success == helper.result = "success"
           retry == ~success /\ upd.attempt < MaxRetries
           r == Req("update_response", NoPingId)
       IN  \E ok1 \in BOOLEAN, ok2 \in BOOLEAN :
              LET threw == SendOn(SendState, r, ok1).thrown # thrown
                  rs == IF retry THEN <<>>
                        ELSE IF success /\ threw THEN <<r, r>> ELSE <<r>>
              IN  /\ Sends(rs, <<ok1, ok2>>)
                  /\ upd' = [upd EXCEPT
                       !.pc = IF retry THEN "delay" ELSE "done",
                       !.response = IF success /\ ~threw THEN "success"
                                    ELSE IF retry THEN "none" ELSE "failure",
                       !.exitTimer = Alive /\ success /\ ~threw,
                       !.installFailed = @ \/ helper.failed \cap AfterBackup # {}]
    /\ UNCHANGED <<exe, service, backups, clock, updFile, rollback,
                   ws, sock, isConnected, shouldReconnect, reconnectAttempts,
                   reconnectTimer, heartbeatInterval, hbTimers, conns, lost,
                   timerDelay, last, hbManager, proc,
                   ipcVars, cmpVars, outVars, rspVars>>

\* executeHelper: _delay(1000 * (attempt + 1)) is over, the next attempt
\* spawns the helper again
UpdateRetry ==
    /\ Alive
    /\ upd.pc = "delay" /\ helper.run = "none"
    /\ upd' = [upd EXCEPT !.pc = "running", !.attempt = @ + 1]
    /\ helper' = HelperMain("update")
    /\ UNCHANGED <<exe, service, backups, clock, updFile, rollback,
                   notUpdVars>>

\* setTimeout(() => process.exit(0), 1000) after a successful update
UpdateExit ==
    /\ Alive
    /\ upd.exitTimer
    /\ upd' = [upd EXCEPT !.exitTimer = FALSE]
    /\ proc' = "exited"
    /\ UNCHANGED <<exe, service, backups, clock, updFile, helper, rollback,
                   ipcVars, wsButProc, cmpVars, outVars, rspVars>>

\* a helper_command for update-helper with args ['rollback'] spawns the
\* helper
AgentRollback ==
    /\ Alive
    /\ helper.run = "none"
    /\ helper' = HelperMain("rollback")
    /\ rollback' = "running"
    /\ UNCHANGED <<exe, service, backups, clock, updFile, upd, notUpdVars>>

\* the helper process of a rollback ends
RollbackHelperExit ==
    /\ helper.run = "rollback" /\ helper.pc = "exit"
    /\ helper' = NoHelper
    /\ rollback' = helper.result
    /\ UNCHANGED <<exe, service, backups, clock, updFile, upd, notUpdVars>>

\* the backups of earlier updates that can be in the backup directory
OlderBackups ==
    {[ts |-> 1, content |-> "older1"], [ts |-> 2, content |-> "older2"]}

NextUpdate ==
    \/ AgentUpdate
    \/ \E outcome \in {"error", "none", "update"} : Check(outcome)
    \/ \E ok \in BOOLEAN, named \in BOOLEAN : Download(ok, named)
    \/ InstallBegin
    \/ \E ok \in BOOLEAN : Backup(ok)
    \/ \E ok \in BOOLEAN : StopAgentService(ok)
    \/ \E ok \in BOOLEAN : Replace(ok)
    \/ \E ok \in BOOLEAN : Chmod(ok)
    \/ \E ok \in BOOLEAN : StartAgentService(ok)
    \/ \E ok \in BOOLEAN : Cleanup(ok)
    \/ UpdateHelperExit
    \/ UpdateRetry
    \/ UpdateExit
    \/ AgentRollback
    \/ RollbackBegin
    \/ \E ok \in BOOLEAN : Restore(ok)
    \/ RollbackHelperExit

-----------------------------------------------------------------------------
(* UpdateHelperV2.compareVersions and checkForUpdates.  A version string    *)
(* is its dot-separated numeric parts, with or without a "v" in front of    *)
(* the first part, as in the release tags v2.0.1.                           *)

\* the version strings of up to MaxParts parts, each at most MaxPart
VersionStrings ==
    {[v |-> p, parts |-> q] :
        p \in BOOLEAN,
        q \in UNION {[1 .. n -> 0 .. MaxPart] : n \in 1 .. MaxParts}}

\* a.split('.').map(Number): Number("v2") is NaN
Numbers(s) ==
    [i \in 1 .. Len(s.parts) |-> IF s.v /\ i = 1 THEN NaN ELSE s.parts[i]]

\* aParts[i] || 0: undefined, NaN and 0 give 0
OrZero(ps, i) == IF i > Len(ps) \/ ps[i] = NaN THEN 0 ELSE ps[i]

\* Math.max
Max(x, y) == IF x > y THEN x ELSE y

\* the loop of compareVersions from index i on
RECURSIVE CompareFrom(_, _, _)
CompareFrom(ap, bp, i) ==
    IF i > Max(Len(ap), Len(bp)) THEN 0
    ELSE IF OrZero(ap, i) > OrZero(bp, i) THEN 1
    ELSE IF OrZero(ap, i) < OrZero(bp, i) THEN -1
    ELSE CompareFrom(ap, bp, i + 1)

\* compareVersions(a, b)
CompareVersions(a, b) == CompareFrom(Numbers(a), Numbers(b), 1)

\* checkForUpdates(): hasUpdate = compareVersions(updateInfo.version,
\* currentVersion) > 0; a failing fetchUpdateInfo gives the error result
CheckForUpdates(ok) ==
    /\ checkResult = "none"
    /\ checkResult' = IF ~ok THEN "error"
                      ELSE IF CompareVersions(latest, current) > 0
                      THEN "update" ELSE "current"
    /\ UNCHANGED <<latest, current, notCmpVars>>

NextCheck == \E ok \in BOOLEAN : CheckForUpdates(ok)

-----------------------------------------------------------------------------
(* A helper's standard output and IPCManager._parseHelperResponse.  The     *)
(* output is a sequence of lines, each one of the texts of Lines, written   *)
(* here without the indentation that trim() removes.                        *)

\* what a helper logs through log(), e.g. the constructor's start message
LogLine == "Update Helper v2.0.0 started"

\* the lines of JSON.stringify({success: s}, null, 2)
PrettyPrint(s) ==
    <<"{", IF s THEN "\"success\": true" ELSE "\"success\": false", "}">>

\* the lines a helper's output is made of: a log line, the lines of a
\* pretty-printed result, a result on one line, an array, a number, a line
\* that opens like JSON and is none, and an empty line
Lines ==
    {LogLine, "{", "\"success\": true", "\"success\": false", "}",
     "{\"success\":true}", "{\"success\":false}", "[1]", "42", "{oops", ""}

\* the outputs of at most n lines
Outputs(n) == UNION {[1 .. k -> Lines] : k \in 0 .. n}

\* the object {success: s}
Obj(s) == [kind |-> "object", success |-> s]

\* what JSON.parse throws
SyntaxError == [kind |-> "SyntaxError"]

\* JSON.parse of one line
ParseLine(l) ==
    CASE l = "{\"success\":true}" -> Obj(TRUE)
      [] l = "{\"success\":false}" -> Obj(FALSE)
      [] l = "[1]" -> [kind |-> "array"]
      [] l = "42" -> [kind |-> "number"]
      [] OTHER -> SyntaxError

\* the lines that are not empty: white space between JSON tokens is skipped
NonBlank(ls) == SelectSeq(ls, LAMBDA l : l # "")

\* JSON.parse of the lines joined by newlines
ParseJSON(ls) ==
    LET t == NonBlank(ls) IN
    CASE Len(t) = 1 -> ParseLine(t[1])
      [] t = <<"{", "}">> -> [kind |-> "object"]
      [] t = PrettyPrint(TRUE) -> Obj(TRUE)
      [] t = PrettyPrint(FALSE) -> Obj(FALSE)
      [] OTHER -> SyntaxError

\* output.trim(): the empty lines at both ends are dropped
RECURSIVE Trim(_)
Trim(ls) ==
    IF ls = <<>> THEN ls
    ELSE IF Head(ls) = "" THEN Trim(Tail(ls))
    ELSE IF ls[Len(ls)] = "" THEN Trim(SubSeq(ls, 1, Len(ls) - 1))
    ELSE ls

\* trimmed.startsWith('{') || trimmed.startsWith('[')
StartsLikeJson(l) ==
    l \in {"{", "{\"success\":true}", "{\"success\":false}", "[1]", "{oops"}

\* the result for an output no JSON was found in
RawSuccess(ls) == [kind |-> "object", success |-> TRUE, message |-> Trim(ls)]

\* the scan that returns the first line JSON.parse accepts, whatever it
\* starts with
RECURSIVE ScanLinesAnyJson(_, _)
ScanLinesAnyJson(ls, i) ==
    IF i > Len(ls) THEN RawSuccess(ls)
    ELSE IF ParseLine(ls[i]) # SyntaxError THEN ParseLine(ls[i])
    ELSE ScanLinesAnyJson(ls, i + 1)

\* _parseHelperResponse: `for (const line of lines)` from line i on; a line
\* that starts with { or [ is returned if JSON.parse accepts it and skipped
\* if it throws
RECURSIVE ScanLines(_, _)
ScanLines(ls, i) ==
    IF i > Len(ls) THEN RawSuccess(ls)
    ELSE IF StartsLikeJson(ls[i]) /\ ParseLine(ls[i]) # SyntaxError
    THEN ParseLine(ls[i])
    ELSE ScanLines(ls, i + 1)

\* _parseHelperResponse(output)
ParseHelperResponse(ls) ==
    IF ParseJSON(Trim(ls)) # SyntaxError
    THEN ParseJSON(Trim(ls))
    ELSE ScanLines(ls, 1)

\* new UpdateHelperV2(): the constructor logs its start message, and log()
\* writes it to standard output with console.log
HelperConstruct ==
    /\ output.who = "update-helper" /\ output.pc = "start"
    /\ output' = [output EXCEPT !.pc = "running", !.lines = Append(@, LogLine)]
    /\ UNCHANGED notOutVars

\* this.log(message) in checkForUpdates, downloadUpdate, installUpdate and
\* rollbackUpdate
HelperLog ==
    /\ output.who = "update-helper" /\ output.pc = "running"
    /\ Len(output.lines) < MaxLines
    /\ output' = [output EXCEPT !.lines = Append(@, LogLine)]
    /\ UNCHANGED notOutVars

\* main: console.log(JSON.stringify(result, null, 2)) and
\* process.exit(result.success ? 0 : 1)
HelperPrintResult(s) ==
    /\ output.who = "update-helper" /\ output.pc = "running"
    /\ output' = [output EXCEPT !.pc = "exited",
                                !.lines = @ \o PrettyPrint(s),
                                !.result = Obj(s),
                                !.code = IF s THEN 0 ELSE 1]
    /\ UNCHANGED notOutVars

\* the child's 'close' event: exit code 0 resolves with
\* _parseHelperResponse(stdout), another code rejects
OnCloseOutput ==
    /\ output.pc = "exited"
    /\ output' = IF output.code = 0
                 THEN [output EXCEPT !.pc = "resolved",
                          !.parsed = ParseHelperResponse(output.lines)]
                 ELSE [output EXCEPT !.pc = "rejected"]
    /\ UNCHANGED notOutVars

NextOutput ==
    \/ HelperConstruct
    \/ HelperLog
    \/ \E s \in BOOLEAN : HelperPrintResult(s)
    \/ OnCloseOutput

-----------------------------------------------------------------------------
(* The runtime's command handlers (AgentV2.handleCommandExecution,          *)
(* handlePluginCommand, handleHelperCommand, handleAgentUpdate): each       *)
(* awaits its helper or plugin and sends the response inside one try, and   *)
(* sends the failure response in the catch.                                 *)

\* the inbound message types that are answered with a *_response
CmdTypes == {"execute_command", "plugin_command", "helper_command",
             "update_agent"}

\* the requestId values of inbound messages
RequestIds == {"r1", "r2"}

\* the payloads a helper can report
Hostnames == {"h1", "h2"}

\* the response type of each handler
RespType(t) ==
    CASE t = "execute_command" -> "command_response"
      [] t = "plugin_command" -> "plugin_response"
      [] t = "helper_command" -> "helper_response"
      [] t = "update_agent" -> "update_response"

\* what executeHelper or executePlugin resolves with: the helper's parsed
\* object {success: true, data: {hostname: h}}, an object with success
\* false, or the success made up from raw output
HelperResults ==
    {[success |-> TRUE, data |-> [hostname |-> h]] : h \in Hostnames}
        \cup {[success |-> FALSE, error |-> "failed"],
              [success |-> TRUE, message |-> "raw"]}

\* executeHelper or executePlugin threw instead
Rejection == [kind |-> "throw"]

\* the handler is still awaiting
NoResult == [kind |-> "none"]

\* obj.key in JavaScript: undefined for a property the object does not have
Get(obj, key) == IF key \in DOMAIN obj THEN obj[key] ELSE "undefined"

\* the response of the try block: {type, requestId, success: result.success,
\* data: result}
Response(m, res) ==
    [type |-> RespType(m.type), requestId |-> m.requestId,
     success |-> Get(res, "success"), data |-> res]

\* the response of the catch block: {type, requestId, success: false,
\* error: error.message}
Failure(m) ==
    [type |-> RespType(m.type), requestId |-> m.requestId,
     success |-> FALSE, error |-> "message"]

\* how a call of WebSocketClient.send ends: the message is pushed on the
\* queue when not connected, written to the socket, or ws.send throws and
\* send rethrows
SendOutcomes == {"queued", "written", "thrown"}

\* handleMessage dispatches a command message to its handler, which calls
\* executeHelper or executePlugin
HandleCommand(t, id) ==
    /\ request = NoRequest
    /\ request' = [type |-> t, requestId |-> id, pc |-> "running",
                   result |-> NoResult, escaped |-> FALSE,
                   exitTimer |-> FALSE]
    /\ responses' = <<>>
    /\ UNCHANGED notRspVars

\* the ws.send calls of a handler once its helper or plugin has settled with
\* res (Rejection when it threw): the try block's send, and the catch
\* block's send after a rejection or after the first send threw
HandlerSends(m, res, o1, o2) ==
    IF res = Rejection
    THEN <<[msg |-> Failure(m), outcome |-> o2]>>
    ELSE IF o1 = "thrown"
    THEN <<[msg |-> Response(m, res), outcome |-> o1],
           [msg |-> Failure(m), outcome |-> o2]>>
    ELSE <<[msg |-> Response(m, res), outcome |-> o1]>>

\* the handler's continuation after its await: it sends its responses; an
\* exception of the catch block's send leaves the handler and is logged by
\* handleMessage; handleAgentUpdate sets the timer of process.exit(0) after
\* the response of a successful result was sent
CommandSettles(res, o1, o2) ==
    /\ request # NoRequest /\ request.pc = "running"
    /\ LET sent == HandlerSends(request, res, o1, o2) IN
       /\ responses' = sent
       /\ request' = [request EXCEPT
            !.pc = "done",
            !.result = res,
            !.escaped = sent[Len(sent)].msg = Failure(request)
                          /\ sent[Len(sent)].outcome = "thrown",
            !.exitTimer = /\ request.type = "update_agent"
                          /\ res # Rejection
                          /\ o1 # "thrown"
                          /\ Get(res, "success") = TRUE]
    /\ UNCHANGED notRspVars

NextResponse ==
    \/ \E t \in CmdTypes, id \in RequestIds : HandleCommand(t, id)
    \/ \E res \in HelperResults \cup {Rejection}, o1 \in SendOutcomes,
          o2 \in SendOutcomes : CommandSettles(res, o1, o2)

-----------------------------------------------------------------------------
(* Specifications *)

\* the state after `new IPCManager(logger, options)`, with the invocation
\* ids in `used` still to be issued
InitIPC(used, retries) ==
    /\ isInitialized = FALSE
    /\ hasShutdown = FALSE
    /\ optRetry = retries
    /\ activeCommands = [c \in Calls |-> NoEntry]
    /\ call = [c \in Calls |-> IF c \in used THEN IdleCall ELSE UnusedCall]
    /\ att = [c \in Calls |-> [k \in Attempts |-> NoAttempt]]

\* no update_agent message, no update helper
IdleUpd ==
    /\ exe = "old"
    /\ service = "running"
    /\ backups = {}
    /\ clock = FirstNow
    /\ updFile = FALSE
    /\ helper = NoHelper
    /\ upd = IdleUpdate
    /\ rollback = "none"

\* no version check
IdleCmp ==
    /\ latest = NoVersion
    /\ current = NoVersion
    /\ checkResult = "none"

\* no helper output
IdleOut == output = NoOutput

\* no command message
IdleRsp ==
    /\ request = NoRequest
    /\ responses = <<>>

IdleExt == IdleUpd /\ IdleCmp /\ IdleOut /\ IdleRsp

Init == InitIPC({"id1"}, MaxRetries) /\ InitWS /\ IdleExt

\* the manager constructed with retryAttempts: 0, two invocations
Init2 == InitIPC(Calls, 0) /\ InitWS /\ IdleExt

\* the protocol client alone
InitClient == InitIPC({}, MaxRetries) /\ InitWS /\ IdleExt

NextIPC ==
    \/ Initialize
    \/ \E c \in Calls, h \in Helpers, req \in {Undef} \cup (0 .. MaxRetries) :
          ExecuteHelper(c, h, req)
    \/ \E c \in Calls : HandleAgentUpdate(c)
    \/ \E c \in Calls, h \in Helpers : HandleHelperCommand(c, h)
    \/ \E c \in Calls : DelayFire(c)
    \/ \E c \in Calls, k \in Attempts : ProcClose(c, k)
    \/ \E c \in Calls, k \in Attempts : TimeoutFire(c, k)
    \/ \E c \in Calls, k \in Attempts : GraceFire(c, k)
    \/ \E c \in Calls : KillCommand(c)
    \/ Shutdown

\* one helper invocation
SpecIPC == Init /\ [][NextIPC]_vars

\* the timers of the event loop fire; a helper process need not ever exit
FairIPC ==
    /\ \A c \in Calls, k \in Attempts : WF_vars(TimeoutFire(c, k))
    /\ \A c \in Calls : WF_vars(DelayFire(c))

SpecIPCFair == Init /\ [][NextIPC]_vars /\ FairIPC

\* the commands the backend sends, the helper's events and cancellation
NextAgent ==
    \/ Initialize
    \/ \E c \in Calls : HandleAgentUpdate(c)
    \/ \E c \in Calls, h \in Helpers : HandleHelperCommand(c, h)
    \/ \E c \in Calls, k \in Attempts : ProcClose(c, k)
    \/ \E c \in Calls, k \in Attempts : TimeoutFire(c, k)
    \/ \E c \in Calls, k \in Attempts : GraceFire(c, k)
    \/ \E c \in Calls : KillCommand(c)
    \/ Shutdown

\* two concurrent helper invocations
SpecIPC2 == Init2 /\ [][NextAgent]_vars

\* the protocol client
SpecWS == InitClient /\ [][NextWS]_vars

\* the life of the connection alone: send() and handleMessage touch none of
\* ws, the socket, isConnected, shouldReconnect, the reconnect counter and
\* timer
NextReconnect ==
    \/ Start
    \/ HandleOpen
    \/ HandleClose
    \/ HandleError
    \/ ReconnectFire(MaxSockets)
    \/ Stop
    \/ Exit

SpecReconnect == InitClient /\ [][NextReconnect]_vars

\* one update_agent request, its helper runs and rollback runs
\* the agent installed and running, before any update_agent message, with
\* any of the older backups in the backup directory
InitUpd ==
    /\ InitIPC({}, MaxRetries) /\ InitWS
    /\ IdleCmp /\ IdleOut /\ IdleRsp
    /\ exe = "old"
    /\ service = "running"
    /\ backups \in SUBSET OlderBackups
    /\ clock = FirstNow
    /\ updFile = FALSE
    /\ helper = NoHelper
    /\ upd = IdleUpdate
    /\ rollback = "none"

SpecUpdate == InitUpd /\ [][NextUpdate]_vars

\* a helper process runs to its end and the runtime's timers fire; the
\* backend need not send any command
FairUpdate ==
    /\ WF_vars(\E outcome \in {"error", "none", "update"} : Check(outcome))
    /\ WF_vars(\E ok \in BOOLEAN, named \in BOOLEAN : Download(ok, named))
    /\ WF_vars(InstallBegin)
    /\ WF_vars(\E ok \in BOOLEAN : Backup(ok))
    /\ WF_vars(\E ok \in BOOLEAN : StopAgentService(ok))
    /\ WF_vars(\E ok \in BOOLEAN : Replace(ok))
    /\ WF_vars(\E ok \in BOOLEAN : Chmod(ok))
    /\ WF_vars(\E ok \in BOOLEAN : StartAgentService(ok))
    /\ WF_vars(\E ok \in BOOLEAN : Cleanup(ok))
    /\ WF_vars(UpdateHelperExit)
    /\ WF_vars(UpdateRetry)
    /\ WF_vars(UpdateExit)
    /\ WF_vars(RollbackBegin)
    /\ WF_vars(\E ok \in BOOLEAN : Restore(ok))
    /\ WF_vars(RollbackHelperExit)

SpecUpdateFair == InitUpd /\ [][NextUpdate]_vars /\ FairUpdate

\* one command message and its handler
\* no command message yet
InitRsp ==
    /\ InitIPC({}, MaxRetries) /\ InitWS
    /\ IdleUpd /\ IdleCmp /\ IdleOut /\ IdleRsp

SpecResponse == InitRsp /\ [][NextResponse]_vars

\* one helper process's output and the close handler's parsing of it
\* a helper that has written any output and exited with code 0 or 1, or the
\* update helper about to start
InitOut ==
    /\ InitIPC({}, MaxRetries) /\ InitWS
    /\ IdleUpd /\ IdleCmp /\ IdleRsp
    /\ \/ output \in [who : {"mock"}, pc : {"exited"},
                      lines : Outputs(MaxLines), code : {0, 1},
                      result : {"none"}, parsed : {"none"}]
       \/ output = [who |-> "update-helper", pc |-> "start", lines |-> <<>>,
                    code |-> 0, result |-> "none", parsed |-> "none"]

SpecOutput == InitOut /\ [][NextOutput]_vars

\* one run of checkForUpdates for each latest and running version
\* the release index answers with any tag; package.json holds a numeric
\* version
InitCmp ==
    /\ InitIPC({}, MaxRetries) /\ InitWS
    /\ IdleUpd /\ IdleOut /\ IdleRsp
    /\ latest \in VersionStrings
    /\ current \in {s \in VersionStrings : ~s.v}
    /\ checkResult = "none"

SpecCheck == InitCmp /\ [][NextCheck]_vars

-----------------------------------------------------------------------------
(* Properties of the IPC manager *)

\* executeHelper has returned or thrown
Done(c) == call[c].pc \in {"returned", "thrown"}

\* the attempt's promise has been resolved or rejected
Settled(a) == a.outcome \notin {"none", "pending"}

\* the number of times invocation c spawned its helper
Starts(c) == Cardinality({k \in Attempts : att[c][k].proc # "none"})

\* C1: under every interleaving of close, error, the timeout timer,
\* killCommand and shutdown, each attempt is settled by exactly one handler
\* (never by two), and each executeHelper call returns or throws at most once.
C1_SettledOnce ==
    \A c \in Calls :
        /\ call[c].resolves <= 1
        /\ Done(c) <=> call[c].resolves = 1
        /\ \A k \in Attempts :
              /\ att[c][k].settles <= 1
              /\ Settled(att[c][k]) <=> att[c][k].settles = 1

\* an attempt that was rejected by its timeout, whose process closed later and
\* whose grace timer fired: three handlers ran, one settled
C1_Witness ==
    \E c \in Calls, k \in Attempts :
        /\ att[c][k].outcome = "timeout"
        /\ att[c][k].proc = "closed"
        /\ att[c][k].grace = "fired"
        /\ att[c][k].settles = 1

\* C2: every executeHelper call eventually returns or throws, even when the
\* helper process never exits, and the number of attempts is bounded by the
\* retry count.
C2_EventuallyResolves ==
    /\ \A c \in Calls : (call[c].pc \in {"running", "delay"}) ~> Done(c)
    /\ [](\A c \in Calls : call[c].attempt <= call[c].retryAttempts
                            /\ call[c].retryAttempts <= MaxRetries)

\* the call has thrown although none of its helper processes ever exited
C2_Witness ==
    \E c \in Calls :
        /\ call[c].pc = "thrown"
        /\ call[c].retryAttempts >= 1
        /\ \A k \in 0 .. call[c].retryAttempts :
              att[c][k].proc = "running" /\ att[c][k].outcome = "timeout"

\* C3: an invocation whose helper executable does not exist fails with the
\* helper-not-found error on the first attempt and is never retried: one
\* attempt, no retry delay.
C3_NotFoundNotRetried ==
    \A c \in Calls :
        (call[c].helper \in Helpers /\ ~HelperExists(call[c].helper)
            /\ att[c][0].outcome # "none")
        => /\ att[c][0].outcome = "notfound"
           /\ call[c].pc = "thrown"
           /\ call[c].attempt = 0
           /\ call[c].delayMs = 0

\* C4: for a requested retry count r >= 0 the helper is started at most r + 1
\* times, never again after a successful attempt, exactly once with r = 0, and
\* the delay before the k-th retry is k * 1000 ms.
C4_RetryBound ==
    \A c \in Calls :
        /\ call[c].req >= 0 => Starts(c) <= call[c].req + 1
        /\ (call[c].req = 0 /\ Done(c) /\ HelperExists(call[c].helper)
                /\ att[c][0].outcome # "none") => Starts(c) = 1
        /\ \A k \in Attempts :
              att[c][k].outcome = "ok" =>
                  \A j \in Attempts : j > k => att[c][j].outcome = "none"
        /\ call[c].pc = "delay" => call[c].delayMs = (call[c].attempt + 1) * BaseDelay

\* C5: a timed-out attempt's process is sent SIGTERM, and SIGKILL once the
\* grace period has passed with the process still running.
C5_KillEscalates ==
    \A c \in Calls, k \in Attempts :
        /\ att[c][k].outcome = "timeout" => att[c][k].sigterm
        /\ (att[c][k].outcome = "timeout" /\ att[c][k].grace = "fired"
                /\ att[c][k].proc = "running") => att[c][k].sigkill

\* C6: a helper that runs longer than the timeout has its attempt resolved
\* once the timer has fired (so within timeout + grace), and when the attempt
\* has resolved with the timeout error the process has terminated.
C6_TimeoutTerminated ==
    \A c \in Calls, k \in Attempts :
        /\ (att[c][k].timer = "done" /\ att[c][k].proc = "running")
               => Settled(att[c][k])
        /\ att[c][k].outcome = "timeout" => att[c][k].proc = "closed"

\* C7: two invocations of the update helper never have their processes
\* running at the same time.
C7_UpdateExclusive ==
    \A c1, c2 \in Calls :
        (c1 # c2 /\ call[c1].helper = "update-helper"
                 /\ call[c2].helper = "update-helper")
        => ~(\E k1, k2 \in Attempts :
                att[c1][k1].proc = "running" /\ att[c2][k2].proc = "running")

\* the kill escalation already ran for this correlation id, by killCommand
\* or by the timeout handler
Cancelled(c) ==
    call[c].kills > 0 \/ \E k \in Attempts : att[c][k].outcome = "timeout"

\* C8 as stated: once a correlation id was cancelled (by killCommand or by the
\* timeout path), no later killCommand on it sends a signal or removes an
\* entry.
C8_SecondKillNoOp ==
    [][\A c \in Calls : Cancelled(c) => call'[c].kills = call[c].kills]_vars

\* C8 amended: killCommand leaves no entry for the id; on an id without an
\* entry it returns false and changes nothing else; and an id without an
\* entry gets one only when a new attempt of the invocation is spawned.
C8_KillIdempotent ==
    [][\A c \in Calls :
          /\ KillCommand(c) => activeCommands'[c] = NoEntry
          /\ (KillCommand(c) /\ activeCommands[c] = NoEntry)
                => /\ call'[c].killRet = "false"
                   /\ call'[c].kills = call[c].kills
                   /\ UNCHANGED <<activeCommands, att, isInitialized>>
          /\ (activeCommands[c] = NoEntry /\ activeCommands'[c] # NoEntry)
                => /\ att[c][activeCommands'[c]].proc = "none"
                   /\ att'[c][activeCommands'[c]].proc = "running"]_vars

\* a killCommand that returned false after an earlier one on the same id
\* had sent SIGTERM
C8_Witness ==
    \E c \in Calls, k \in Attempts :
        /\ call[c].kills >= 1
        /\ call[c].killRet = "false"
        /\ att[c][k].sigterm

-----------------------------------------------------------------------------
(* Properties of the protocol client *)

\* the payloads the transport took that went through send()
AcceptedSent == SelectSeq(accepted, LAMBDA m : m.id > 0)

\* C9: a message passed to send() while not Connected is queued and not
\* transmitted, and is never dropped: it stays queued until the next open hands
\* the whole queue to the transport, which then has it, also when a write of
\* the flush fails; while Connected nothing is queued.
C9_QueuedNeverDropped ==
    /\ \A i \in 1 .. Len(messageQueue) : messageQueue[i].id \notin Ids(accepted)
    /\ isConnected => messageQueue = <<>>
    /\ \A n \in 1 .. sendCount :
          n \in Ids(messageQueue) \/ n \in Ids(accepted) \/ n \in thrown

\* C10: across disconnects and reconnects the transport gets the messages in
\* the order of their send() calls, each exactly once, the queued ones before
\* any message sent later.
C10_FifoExactlyOnce ==
    /\ \A i, j \in 1 .. Len(AcceptedSent) :
          i < j => AcceptedSent[i].id < AcceptedSent[j].id
    /\ \A i \in 1 .. Len(messageQueue), j \in 1 .. Len(AcceptedSent) :
          AcceptedSent[j].id < messageQueue[i].id
    /\ \A n \in (1 .. sendCount) \ thrown :
          (n \in Ids(messageQueue)) # (n \in Ids(accepted))

\* C11: on every connection the first ws.send() call carries agent_hello and
\* no other call of that connection does: nothing is written on a socket
\* before it opened, and every queued message, pong and heartbeat comes after
\* the identification.
C11_HelloFirst ==
    /\ sock \in {"none", "connecting"} => wire = <<>>
    /\ sock = "open" => wire # <<>>
    /\ wire # <<>> => wire[1].msg = Hello
    /\ \A i \in 2 .. Len(wire) : wire[i].msg.type # "agent_hello"

\* the second connection took the identification, then a flushed heartbeat,
\* then a pong
C11_Witness ==
    /\ conns = 2
    /\ Len(wire) >= 3
    /\ wire[1] = [msg |-> Hello, ok |-> TRUE]
    /\ wire[2].msg.type = "heartbeat" /\ wire[2].ok
    /\ wire[3].msg.type = "pong" /\ wire[3].ok

\* C12: the client's heartbeat timer exists only while Connected, and no
\* heartbeat message is in the outbound queue: heartbeats are passed to
\* send() only while Connected.
C12_HeartbeatOnlyConnected ==
    /\ heartbeatInterval = "set" => isConnected
    /\ hbTimers > 0 => isConnected
    /\ \A i \in 1 .. Len(messageQueue) : messageQueue[i].type # "heartbeat"

\* C13: the reconnect counter is the number of reconnects scheduled since the
\* last open (it grows by one with each timer set and only then, and an open
\* resets it to zero), and it never exceeds the cap of ten.
C13_ReconnectCap ==
    [][/\ reconnectAttempts' <= MaxReconnectAttempts
       /\ (~reconnectTimer /\ reconnectTimer')
             => reconnectAttempts' = reconnectAttempts + 1
       /\ (sock # "open" /\ sock' = "open") => reconnectAttempts' = 0
       /\ reconnectAttempts' # reconnectAttempts
             => \/ ~reconnectTimer /\ reconnectTimer'
                \/ sock # "open" /\ sock' = "open"]_vars

\* ten reconnects failed in a row and the close of the last socket scheduled
\* nothing
C13_Witness ==
    /\ reconnectAttempts = MaxReconnectAttempts
    /\ conns = MaxReconnectAttempts + 1
    /\ sock = "closed"
    /\ shouldReconnect
    /\ ~reconnectTimer
    /\ last.handler = "close"

RECURSIVE Pow(_, _)
Pow(b, e) == IF e = 0 THEN 1 ELSE b * Pow(b, e - 1)

\* 5000 ms * 1.5^(k-1) in units of 1/DelayScale ms, for 1 <= k <= 10
DelayAt(k) == ((ReconnectDelay * DelayScale) \div Pow(2, k - 1)) * Pow(3, k - 1)

\* C15: the timer of reconnect attempt k is set to 5000 ms * 1.5^(k-1), which
\* is more than the delay of attempt k - 1.
C15_BackoffDelays ==
    reconnectTimer =>
        LET k == reconnectAttempts
        IN  /\ k \in 1 .. MaxReconnectAttempts
            /\ timerDelay = DelayAt(k)
            /\ k > 1 => timerDelay > DelayAt(k - 1)

\* the fourth reconnect in a row is scheduled after 16875 ms
C15_Witness ==
    /\ reconnectTimer
    /\ reconnectAttempts = 4
    /\ timerDelay = 16875 * DelayScale

\* C16: once disconnect() has run the client stays shut down: it is not
\* Connected and has no heartbeat timer, no socket is connecting or open, no
\* further socket is created, also when a reconnect timer was pending.
C16_ShutdownTerminal ==
    /\ [](~shouldReconnect =>
            /\ ~isConnected
            /\ heartbeatInterval = "null"
            /\ hbTimers = 0
            /\ hbManager # "running"
            /\ sock \notin {"connecting", "open"})
    /\ [][~shouldReconnect => ~shouldReconnect' /\ conns' = conns]_vars

\* disconnect() ran while a reconnect timer was pending and the timer has
\* fired since: every socket has closed, each close scheduled a reconnect,
\* and the last timer created no socket
C16_Witness ==
    /\ ~shouldReconnect
    /\ ~reconnectTimer
    /\ conns >= 1
    /\ reconnectAttempts = conns
    /\ sock = "closed"

\* C17: a write that fails in Connected is handled like a close: the client
\* leaves Connected, clears the heartbeat timer and schedules a reconnect.
C17_WriteFailureIsClose ==
    [][thrown' # thrown
          => /\ ~isConnected'
             /\ heartbeatInterval' = "null"
             /\ reconnectTimer']_vars

\* C18: handling a ping passes exactly one message to send(), a pong with
\* the ping's pingId, and emits no 'message' event.
C18_PingAnswered ==
    (last.handler = "message" /\ last.kind = "ping")
    => /\ Len(last.sent) = 1
       /\ last.sent[1].type = "pong"
       /\ last.sent[1].pingId = last.pingId
       /\ last.emitted = <<>>

\* the ping with token 2 was answered and the transport took the pong
C18_Witness ==
    /\ last.handler = "message"
    /\ last.kind = "ping"
    /\ last.pingId = 2
    /\ \E i \in 1 .. Len(accepted) :
          accepted[i] = [type |-> "pong", id |-> sendCount, pingId |-> 2]

\* C19: handling a malformed payload throws nothing, emits nothing and
\* leaves the connection, the queue, the reconnect counter and timer and the
\* heartbeat timer as they were.
C19_MalformedDropped ==
    [][HandleMessage("malformed", NoPingId)
          => /\ last'.emitted = <<>>
             /\ last'.sent = <<>>
             /\ UNCHANGED <<ws, sock, isConnected, shouldReconnect,
                            reconnectAttempts, reconnectTimer, timerDelay,
                            heartbeatInterval, hbTimers, messageQueue,
                            sendCount, accepted, thrown, lost, wire, proc>>]_vars

\* a malformed payload was handled and the client is still Connected with
\* its heartbeat timer
C19_Witness ==
    /\ last.handler = "message"
    /\ last.kind = "malformed"
    /\ isConnected
    /\ sock = "open"
    /\ heartbeatInterval = "set"
    /\ proc = "running"

\* C20: a transport error or close while the client is not shutting down
\* leaves the agent process running.
C20_ErrorKeepsRunning ==
    [][((HandleError \/ HandleClose) /\ shouldReconnect /\ proc = "running")
          => proc' = "running"]_vars

-----------------------------------------------------------------------------
(* Properties of the update helper *)

\* the backup file installUpdate named at its start is on disk and holds
\* content c
BackedUp(c) == [ts |-> helper.backupTs, content |-> c] \in backups

\* C21: in every step of an update run, the executable is overwritten only
\* when the backup this run made of it is on disk; a run whose backup copy
\* failed has ended, and stops no service and replaces no executable.
C21_BackupBeforeReplace ==
    [][helper.run = "update" =>
         /\ (exe' # exe => BackedUp(exe))
         /\ ("backup" \in helper.failed =>
               helper.pc = "exit" /\ exe' = exe /\ service' = service)]_vars

\* an update run has replaced the executable, the backup of the old one is
\* on disk
C21_Witness ==
    /\ helper.run = "update"
    /\ exe = "new"
    /\ BackedUp(upd.pre)

\* C22: in an update run a failing step is the last step: after a failed
\* check, a check that finds no newer version, a failed download or a
\* failure of any sub-step of install, the run does nothing more than end.
C22_FailureAborts ==
    [][(helper.run = "update" /\ (helper.failed # {} \/ helper.result # "none"))
         => helper' = NoHelper]_vars

\* an update run's install has failed in a step after the backup
InstallFailed == helper.run = "update" /\ helper.failed \cap AfterBackup # {}

\* C23: whenever the install step of an update fails after the backup was
\* taken, the system comes, without a command from the backend, to run the
\* pre-update binary with the service started.
C23_RollbackAutomatic ==
    InstallFailed ~> (exe = upd.pre /\ service = "running")

\* C24: a rollback run that succeeds after an update whose install failed
\* after its backup leaves the executable equal to the pre-update binary and
\* the service running, whatever older backups are in the backup directory.
C24_RollbackRestores ==
    [][(RollbackHelperExit /\ helper.result = "success"
          /\ upd.pc = "done" /\ upd.installFailed)
         => (exe = upd.pre /\ service = "running")]_vars

\* an update run has failed in its check or in its download
CheckOrDownloadFailed ==
    helper.run = "update" /\ helper.failed \cap {"check", "download"} # {}

\* C26: a failure of the check or download step is not fatal: up to that
\* step and after it the run changes neither the executable nor the service,
\* the failed run does nothing but end, the agent process goes on without an
\* exit timer, and when executeHelper gives up the runtime sends
\* update_response with success false.
C26_CheckDownloadNonFatal ==
    [][/\ (helper.run = "update" /\ helper.pc \in {"check", "download"})
            => (exe' = exe /\ service' = service /\ proc' = proc)
       /\ CheckOrDownloadFailed
            => /\ exe' = exe /\ service' = service /\ proc' = proc
               /\ helper' = NoHelper
               /\ ~upd'.exitTimer
               /\ upd'.pc = "done" => upd'.response = "failure"]_vars

\* the request has ended with the failure response, no run of it having
\* reached install, and the agent runs on with its executable
C26_Witness ==
    /\ upd.pc = "done" /\ upd.response = "failure"
    /\ clock = FirstNow
    /\ exe = upd.pre /\ service = "running"
    /\ proc = "running"

-----------------------------------------------------------------------------
(* Properties of the version check *)

\* the i-th numeric part of a version, a missing part being 0
PartAt(s, i) == IF i > Len(s.parts) THEN 0 ELSE s.parts[i]

\* the sign of the lexicographic comparison of the numeric parts
RECURSIVE LexSignFrom(_, _, _)
LexSignFrom(a, b, i) ==
    IF i > Max(Len(a.parts), Len(b.parts)) THEN 0
    ELSE IF PartAt(a, i) > PartAt(b, i) THEN 1
    ELSE IF PartAt(a, i) < PartAt(b, i) THEN -1
    ELSE LexSignFrom(a, b, i + 1)

LexSign(a, b) == LexSignFrom(a, b, 1)

\* C25: compareVersions(a, b) is the sign of the lexicographic comparison of
\* the numeric parts of a and b with missing parts taken as 0, it is
\* antisymmetric and 0 on equal arguments, and the check reports an update
\* exactly when the latest version is strictly greater than the running one.
C25_CompareVersions ==
    checkResult \in {"update", "current"}
        => /\ CompareVersions(latest, current) = LexSign(latest, current)
           /\ CompareVersions(latest, current)
                = -CompareVersions(current, latest)
           /\ CompareVersions(latest, latest) = 0
           /\ checkResult = "update" <=> LexSign(latest, current) = 1

-----------------------------------------------------------------------------
(* Properties of helper output and its parsing *)

\* C29: a helper run writes its one result object to standard output and
\* nothing else, so that for an exit-0 run the close handler resolves with
\* that object, not with a success made up from the raw text.
C29_OutputIsResult ==
    (output.who = "update-helper" /\ output.pc = "resolved")
        => /\ ParseJSON(output.lines) = output.result
           /\ output.parsed = output.result

\* the result the claim describes: the whole trimmed output if it is JSON,
\* else the first line that is a JSON object or array, else the raw success
Described(ls) ==
    LET isJson(l) == ParseLine(l).kind \in {"object", "array"}
        hits == {i \in 1 .. Len(ls) : isJson(ls[i])}
    IN  IF ParseJSON(Trim(ls)) # SyntaxError THEN ParseJSON(Trim(ls))
        ELSE IF hits # {}
        THEN ParseLine(ls[CHOOSE i \in hits : \A j \in hits : i <= j])
        ELSE [kind |-> "object", success |-> TRUE, message |-> Trim(ls)]

\* C30: for every standard output of an exit-0 run the close handler
\* resolves, never rejects, and the result is the whole trimmed output if it
\* parses as JSON, otherwise the first line that parses as a JSON object or
\* array, otherwise a success whose message is the raw trimmed output.
C30_ParseResult ==
    /\ (output.pc = "resolved" => output.parsed = Described(output.lines))
    /\ (output.pc = "rejected" => output.code # 0)

\* an exit-0 output whose whole text is no JSON and whose second line is the
\* first JSON object: the result is that line
C30_Witness ==
    /\ output.pc = "resolved"
    /\ Len(output.lines) >= 2
    /\ ParseJSON(Trim(output.lines)) = SyntaxError
    /\ ParseLine(output.lines[1]) = SyntaxError
    /\ output.parsed = ParseLine(output.lines[2])
    /\ output.parsed.kind = "object"

-----------------------------------------------------------------------------
(* Properties of the command handlers *)

\* C27: each execute_command, plugin_command, helper_command and
\* update_agent message gets exactly one *_response handed to the protocol
\* client, of the handler's type and with the message's requestId; when the
\* helper failed after its retries the response has success false, and no
\* exception leaves the runtime.
C27_OneResponse ==
    (request # NoRequest /\ request.pc = "done")
        => /\ Len(responses) = 1
           /\ responses[1].msg.type = RespType(request.type)
           /\ responses[1].msg.requestId = request.requestId
           /\ request.result = Rejection => responses[1].msg.success = FALSE

\* C28: for a helper_command whose helper printed {success: true,
\* data: {hostname: h}} and exited 0, the response has success true and its
\* data.hostname is h.
C28_PayloadPosition ==
    (/\ request # NoRequest /\ request.pc = "done"
     /\ request.type = "helper_command"
     /\ request.result \in
            {[success |-> TRUE, data |-> [hostname |-> h]] : h \in Hostnames})
        => /\ responses[1].msg.success = TRUE
           /\ Get(responses[1].msg.data, "hostname")
                = request.result.data.hostname

-----------------------------------------------------------------------------
(* Properties of the active-process table, the retry loop and shutdown *)

\* a helper process spawned for correlation id c is still running
Running(c) == \E k \in Attempts : att[c][k].proc = "running"

\* C32: the active-process table holds an entry for a correlation id if and
\* only if a helper process spawned for that id is still running; an entry is
\* never removed while the process is alive.
C32_EntryIffRunning ==
    \A c \in Calls : activeCommands[c] # NoEntry <=> Running(c)

\* C33: the attempts of one executeHelper call never overlap: at any time at
\* most one helper process spawned by that call is running.
C33_RetriesSequential ==
    \A c \in Calls :
        Cardinality({k \in Attempts : att[c][k].proc = "running"}) <= 1

\* C35: after IPCManager.shutdown() has completed no helper process is
\* spawned: neither by a retry of an invocation that shutdown killed nor by
\* a later executeHelper call.
C35_NoSpawnAfterShutdown ==
    [][hasShutdown =>
          \A c \in Calls, k \in Attempts :
              att[c][k].proc = "none" => att'[c][k].proc # "running"]_vars

-----------------------------------------------------------------------------
(* Properties of the flush and the client's heartbeat timer *)

\* the payloads of the ws.send() calls in w, taken or not
Payloads(w) == [i \in 1 .. Len(w) |-> w[i].msg]

C40_OneHeartbeatTimer ==
    /\ hbTimers <= 1
    /\ hbTimers = 1 <=> heartbeatInterval = "set"
    /\ hbTimers = 1 => isConnected

\* the client is Connected on a socket made by a reconnect, after an earlier
\* connection was opened and closed, with one timer
C40_Witness ==
    /\ conns >= 3
    /\ sock = "open" /\ isConnected
    /\ hbTimers = 1

-----------------------------------------------------------------------------
(* Properties of the update request's retry and restart *)

\* C36: for one update_agent request the destructive install step (stop
\* service, replace executable) is executed at most once: after a run of the
\* request failed in its install, no later run of the request gets past the
\* service stop again.
C36_InstallAtMostOnce ==
    upd.installFailed =>
        ~(helper.run = "update" /\ helper.pc \in {"copy", "chmod", "start", "unlink"})

\* C37: the exit for restart is scheduled only if a new binary was
\* installed: when the helper ends and the handler sets the exit timer, the
\* executable is the new one.
C37_ExitOnlyIfInstalled ==
    [][(UpdateHelperExit /\ upd'.exitTimer) => exe = "new"]_vars

-----------------------------------------------------------------------------
(* An update whose every step succeeds, during the life of the connection *)

\* the update_agent message arrives on the open socket: handleMessage calls
\* handleAgentUpdate
UpdateAgentMessage ==
    /\ sock = "open"
    /\ AgentUpdate

NextRestart ==
    \/ Start
    \/ HandleOpen
    \/ HandleClose
    \/ ReconnectFire(MaxConns)
    \/ UpdateAgentMessage
    \/ Check("update")
    \/ Download(TRUE, TRUE)
    \/ InstallBegin
    \/ Backup(TRUE)
    \/ StopAgentService(TRUE)
    \/ Replace(TRUE)
    \/ Chmod(TRUE)
    \/ StartAgentService(TRUE)
    \/ Cleanup(TRUE)
    \/ UpdateHelperExit
    \/ UpdateExit

SpecRestart == InitClient /\ [][NextRestart]_vars

\* C38: after a successful update the agent exits for restart only after the
\* update_response was handed to the transport: at the moment of the
\* process exit no update_response is in the outbound queue.
C38_ResponseBeforeExit ==
    [][UpdateExit =>
          \A i \in 1 .. Len(messageQueue) :
              messageQueue[i].type # "update_response"]_vars

-----------------------------------------------------------------------------
(* Properties of reconnecting *)

\* the client wants a connection, is below the reconnect cap and has none:
\* a socket attempt is in progress or a reconnect timer is pending
Recovering ==
    (conns >= 1 /\ shouldReconnect /\ ~isConnected
        /\ reconnectAttempts < MaxReconnectAttempts)
    => (sock = "connecting" \/ reconnectTimer)

\* C39: while disconnect() has not been called and fewer than 10 consecutive
\* reconnects have failed the client is never stuck (not Connected with
\* neither a socket attempt in progress nor a reconnect timer pending), and a
\* socket that reports an error leaves it so: still wanting to reconnect, in
\* a running process.
C39_NeverStuck ==
    [][/\ Recovering'
       /\ (HandleError /\ shouldReconnect
              /\ reconnectAttempts < MaxReconnectAttempts)
            => (shouldReconnect' /\ proc' = "running")]_vars

-----------------------------------------------------------------------------
(* A helper invocation and the connection under a termination signal *)

NextStop ==
    \/ Initialize
    \/ \E c \in Calls, h \in Helpers : HandleHelperCommand(c, h)
    \/ \E c \in Calls : DelayFire(c)
    \/ \E c \in Calls, k \in Attempts : ProcClose(c, k)
    \/ \E c \in Calls, k \in Attempts : TimeoutFire(c, k)
    \/ \E c \in Calls, k \in Attempts : GraceFire(c, k)
    \/ Start
    \/ HandleOpen
    \/ HandleClose
    \/ ReconnectFire(MaxConns)
    \/ Stop
    \/ Exit

\* one helper invocation, the connection, and SIGTERM or SIGINT at any time
SpecStop == Init /\ [][NextStop]_vars

\* C31: on SIGTERM or SIGINT, when the process exits every in-flight helper
\* invocation has been cancelled (no entry is left in the active-process
\* table and every helper process still running was sent a termination
\* signal) and the connection has been closed by disconnect(), although the
\* signal's listeners run stop() and disconnect() more than once.
C31_StopCancelsAndCloses ==
    [][Exit =>
          /\ \A c \in Calls : activeCommands'[c] = NoEntry
          /\ \A c \in Calls, k \in Attempts :
                att'[c][k].proc = "running" => att'[c][k].sigterm
          /\ ws' = "null" /\ ~isConnected'
          /\ sock' \notin {"connecting", "open"}
          /\ ~shouldReconnect']_vars

\* the process has exited on a signal that came while the connection was
\* open and a helper was running: shutdown signalled the helper and
\* disconnect closed the socket
C31_Witness ==
    /\ proc = "exited"
    /\ sock = "closing"
    /\ \E c \in Calls, k \in Attempts :
          /\ att[c][k].proc = "running" /\ att[c][k].sigterm
          /\ att[c][k].outcome = "pending"
          /\ call[c].kills = 1

====
